---- MODULE Spec2Model ----
(***************************************************************************)
(* Model of the deletion orchestration engine of deletemytweets            *)
(* (src/index.js: shouldDeleteByDate, collectWorklist, processTab, run,    *)
(* runCleanup, abortCleanup) and of the desktop shell's start/stop of the  *)
(* cleanup child process (src/electron-main.js).                           *)
(*                                                                         *)
(* Time is an integer instant; NoDate stands for the null that             *)
(* getTweetDate returns when the timestamp cannot be read or parsed.       *)
(* A card of the rendered page is identified by its index in the profile's *)
(* timeline, which is also its status key (the permalink path).            *)
(***************************************************************************)
EXTENDS Integers, Sequences, FiniteSets

\* ------------------------------------------------------------------ bounds
MaxTime == 3
MaxTarget == 2
TimelineLen == 3
MaxRuns == 2
MaxPolls == 2
MaxChildren == 2
MaxPending == 2
MaxChildDeleted == 1
\* lines of the child's output waiting in the pipe
MaxOut == 2
\* processTab over a page known by its counts: largest target, and the most
\* deletable cards the page shows at once
TabTarget == 3
MaxPool == 2
\* pacing: the largest removed.count followed, and the cap of the streak count
MaxPaced == 102
MaxStreak == 13
\* navigation: the most actions followed on one tab
MaxTabActions == 2
\* the oldest session file followed, in days
MaxAge == 92
MaxCustomers == 2
MaxLines == 2
LineLen == 2
MaxAttempts == 2

\* ------------------------------------------------------- program constants
MAX_SWEEPS == 50
NoLoadLimit == 10
BatchLimit == 10
DefaultTarget == 10000
ReloadEvery == 3
CooldownEvery == 100
\* SESSION_EXPIRY_MS = 90 * 24 * 60 * 60 * 1000, in days
SessionExpiryDays == 90

NoDate == -1

\* a value that is not a number (NaN, or undefined where a number is used)
NaN == -1
Times == 0..MaxTime
TimeOrNull == Times \cup {NoDate}

VARIABLES
  pc,                \* position of runCleanup/run/processTab
  TARGET, INCLUDE_POSTS, INCLUDE_REPLIES, HANDLE_REPOSTS,
  DELETE_BEFORE, PROTECT_AFTER,
  abortController,   \* 0 = null, otherwise the identity of the controller
  aborted,           \* controllers whose signal is aborted
  browserOpen,       \* the browser/context launched by run() is open
  tabs,              \* tabs still to be processed by run()'s for loop
  removed,           \* removed.count
  sweepCount, deletedThisSweep, noLoadCount,
  seen,              \* the sweep's seen set of status keys
  work, workIdx,     \* the worklist (positions cards.nth(i)) and the for-of index
  target,            \* timeline index the action in flight resolved to (0: none)
  timeline,          \* the profile's items, newest first (environment)
  loaded,            \* how many timeline items the page has materialised
  gone,              \* timeline items removed from the page by a delete/undo
  deletedCount,      \* runCleanup's deletedCount
  report,            \* what runCleanup delivered: onComplete / rethrow
  \* history of the run (observation only)
  okOutcomes,        \* number of ok outcomes returned by the executor
  evalCount,         \* per status key: classifications in the current sweep
  resolveCount,      \* per status key: ownership probes in the current sweep
  placed,            \* items placed in worklists in the current sweep
  navCount,          \* navigations to a tab's view
  cancelSeen,        \* a loop condition of the run has read isAborted() = true
  \* one call of shouldDeleteByDate: the date read, the window, the result
  cT, cDB, cPA, cTag, cRet,
  \* overlapping runCleanup calls sharing the module's abortController
  runState,          \* per call: "none", "running", "done"
  raisedFor,         \* calls that were running when abortCleanup() was called
  polled,            \* per call: the values isAborted() returned to it, in order
  \* desktop shell (electron-main.js) and its cleanup child processes
  isCleanupRunning,
  cleanupProcess,    \* 0 = null, otherwise the child the variable refers to
  licenseFile,       \* the locally stored license: "none", "malformed", "valid"
  startPending,      \* start-cleanup handlers awaiting the license server
  childPc,           \* per child: none, between, acting, exited, killed, closed
  childDeleted,      \* per child: tweets it has deleted
  serverAnswer,      \* the license server's last answer to start-cleanup
  cleanupStats,      \* electron-main's counters, here its deleted field
  childOut,          \* lines the current child has written and parseAndSend
                     \* has not yet read
  progressSent,      \* deleted field of the last cleanup-progress message
  normalizedHandle,  \* normalizeHandle's result in the last start-cleanup
  \* processTab's loops over a page that is known only by its counts
  swPc,              \* "sweepTop", "batchTop", "tabDone"
  pool,              \* rendered cards that pass the date filter and are the user's
  fresh,             \* those of pool not yet in the sweep's seen set
  noGrowthRun,       \* consecutive scroll steps of the sweep without growth
  emptyRun,          \* consecutive sweeps that ended with deletedThisSweep = 0
  endedBy,           \* how processTab was left: "none", "condition", "no-more"
  \* one worklist item in processTab's try block, one card in isYours
  exPc,              \* "idle", "delete", "undo", "count", "caught", "itemDone",
                     \* "probing", "probed", "runFailed"
  probes,            \* how each page probe of the card in hand settles
  deleteRes,         \* what tryDelete did
  undoRes,           \* what tryUndoRepost did
  counted,           \* increments of removed.count for the item
  yours,             \* what isYours did: "none", "true", "false", "threw",
                     \* "pending"
  menuOpen,          \* a menu opened on the card is still open
  \* the pacing of processTab's actions
  pacePc,            \* "idle", "batch", "item"
  workLeft,          \* items of the worklist not yet acted on
  cooledAt,          \* removed.count at the last extended pause, 0 if none
  streak,            \* deletions since the last extended pause
  \* gotoProfileTab inside processTab inside run() inside runCleanup
  navPc,             \* "idle", "goto", "retry", "loaded", "threw", "finished",
                     \* "rethrown", "stopped"
  tabsLeft,          \* tabs of run()'s list not yet finished
  gotoCount,         \* page.goto calls made for the current tab
  tabActions,        \* actions performed on the current tab
  navFailed,         \* gotoProfileTab has thrown
  \* the saved session file x_auth_<handle>.json, time counted in days
  sessFile,          \* the file exists
  sessAge,           \* days since the file was last written
  sessResult,        \* isSessionValid's last result: "none", "true", "false"
  checkedAge,        \* sessAge at that call, -1 before any call
  \* the license server: Stripe customer metadata behind the two endpoints
  customers,         \* per customer: metadata.license_key (0 = none) and
                     \* metadata.license_status
  keysIssued,        \* license keys generated so far
  whEvent,           \* the webhook event handled last and its HTTP status
  validateRes,       \* the last answer of validate-license
  \* the child's stdout and stderr pipes and parseAndSend's line buffer
  pipe,              \* per stream: characters written and not yet delivered
  linesWritten,      \* lines the child has written so far
  blankLines,        \* those of them that are empty
  partial,           \* streams whose last write ended without a newline
  outputBuffer,      \* parseAndSend's outputBuffer
  forwarded,         \* messages of the cleanup-log sends, in order
  closeSeen,         \* the child's close event has been handled
  \* the delay between the actions of processTab's for loop
  SPEED,             \* config.speed || 'normal'
  MIN_DELAY_MS,      \* as runCleanup set it, NaN where it is not a number
  MAX_DELAY_MS,
  delayPc,           \* "config", "attempt", "pause"
  lastAttempt,       \* how the last attempt ended: "none", "ok", "failed",
                     \* "threw"
  lastDelay,         \* milliseconds pause() slept after the last attempt, 0
                     \* until it has
  attemptsMade,      \* attempts of the run so far
  pausesMade,        \* pause() calls of the run so far
  removedCount       \* removed.count as that loop counts it

runVars == <<pc, TARGET, INCLUDE_POSTS, INCLUDE_REPLIES, HANDLE_REPOSTS,
             DELETE_BEFORE, PROTECT_AFTER, browserOpen, tabs, removed,
             sweepCount, deletedThisSweep, noLoadCount, seen, work, workIdx,
             target, timeline, loaded, gone, deletedCount, report, okOutcomes,
             evalCount, resolveCount, placed, navCount,
             cancelSeen>>
abortVars == <<abortController, aborted>>
classifyVars == <<cT, cDB, cPA, cTag, cRet>>
protoVars == <<runState, raisedFor, polled>>
shellVars == <<serverAnswer, cleanupStats, childOut, progressSent,
               normalizedHandle>>
guiVars == <<isCleanupRunning, cleanupProcess, licenseFile, startPending,
             childPc, childDeleted, shellVars>>
sweepsVars == <<swPc, pool, fresh, noGrowthRun, emptyRun, endedBy>>
execVars == <<exPc, probes, deleteRes, undoRes, counted, yours, menuOpen>>
paceVars == <<pacePc, workLeft, cooledAt, streak>>
navVars == <<navPc, tabsLeft, gotoCount, tabActions, navFailed>>
sessVars == <<sessFile, sessAge, sessResult, checkedAge>>
licVars == <<customers, keysIssued, whEvent, validateRes>>
pipeVars == <<pipe, linesWritten, blankLines, partial, outputBuffer,
              forwarded, closeSeen>>
delayVars == <<SPEED, MIN_DELAY_MS, MAX_DELAY_MS, delayPc, lastAttempt,
               lastDelay, attemptsMade, pausesMade, removedCount>>
lastVars == <<licVars, pipeVars, delayVars>>
laterVars == <<paceVars, navVars, sessVars, lastVars>>
vars == <<runVars, abortVars, classifyVars, protoVars, guiVars, sweepsVars,
          execVars, laterVars>>

cfgVars == <<TARGET, INCLUDE_POSTS, INCLUDE_REPLIES, HANDLE_REPOSTS,
             DELETE_BEFORE, PROTECT_AFTER>>
sweepVars == <<sweepCount, deletedThisSweep, noLoadCount, seen>>
workVars == <<work, workIdx, target>>
pageVars == <<timeline, loaded, gone>>
scanHist == <<evalCount, resolveCount, placed>>
offRun == <<classifyVars, protoVars, guiVars, sweepsVars, execVars,
           laterVars>>
offClassify == <<runVars, abortVars, protoVars, guiVars, sweepsVars, execVars,
                laterVars>>
offCancel == <<runVars, classifyVars, guiVars, sweepsVars, execVars,
              laterVars>>
offGui == <<runVars, abortVars, classifyVars, protoVars, sweepsVars,
           execVars, laterVars>>

Min(a, b) == IF a < b THEN a ELSE b

\* ------------------------------------------------------------ DateClassifier
\* variant: no lower bound, every date before the protect date is deleted
Classify_NoLowerBound(t, db, pa) ==
  IF t = NoDate THEN "SkipUnknownDate"
  ELSE IF t >= pa THEN "Protect"
  ELSE "Delete"

\* variant: protection tested with > in place of >=
Classify_ProtectStrict(t, db, pa) ==
  IF t = NoDate THEN "SkipUnknownDate"
  ELSE IF t > pa THEN "Protect"
  ELSE IF t >= db THEN "Delete"
  ELSE "SkipOutOfRange"

\* The branch of shouldDeleteByDate taken for a date read by getTweetDate
\* (lines 871-893): null, >= PROTECT_AFTER, >= DELETE_BEFORE, older.
Classify(t, db, pa) ==
  IF t = NoDate THEN "SkipUnknownDate"
  ELSE IF t >= pa THEN "Protect"
  ELSE IF t >= db THEN "Delete"
  ELSE "SkipOutOfRange"

shouldDeleteByDate(t, db, pa) == Classify(t, db, pa) = "Delete"


\* ------------------------------------------------------- the page (environment)
\* What a timeline item can be: its datetime attribute and whose it is.
\* "mine": authored by PROFILE_HANDLE (author link, Delete in its menu);
\* "repost": someone else's post the user reposted (unretweet button only).
Window == [deleteBefore |-> 1, protectAfter |-> 2]
Catalogue ==
  { [ts |-> NoDate, own |-> "mine"],
    [ts |-> 1, own |-> "mine"],
    [ts |-> 2, own |-> "mine"],
    [ts |-> 1, own |-> "repost"] }

RECURSIVE Rendered(_, _, _)
Rendered(n, upTo, removedCards) ==
  IF n > upTo THEN <<>>
  ELSE IF n \in removedCards THEN Rendered(n + 1, upTo, removedCards)
  ELSE <<n>> \o Rendered(n + 1, upTo, removedCards)

\* allCards(page): the cards now in the DOM, in order; cards.nth(i) is
\* resolved against this list each time it is used.
allCards == Rendered(1, loaded, gone)

\* statusKey(card): the permalink path of the card
statusKey(card) == card

getTweetDate(card) == timeline[card].ts

\* ------------------------------------------------------------ cancellation
isAborted == abortController # 0 /\ abortController \in aborted

\* ----------------------------------------------------------- ownership
isUserRepost(card) == timeline[card].own = "repost"
menuHasDelete(card) == timeline[card].own = "mine"
isYours(card) ==
  \/ timeline[card].own = "mine"
  \/ (HANDLE_REPOSTS /\ isUserRepost(card))
  \/ menuHasDelete(card)

\* ------------------------------------------------------------ collectWorklist
\* variant: the seen set is not consulted
AlreadySeen_NoSeenCheck(key, seenKeys) == FALSE

\* line 1094: if (!key || seen.has(key)) continue;
AlreadySeen(key, seenKeys) == key \in seenKeys

\* The for loop of collectWorklist from position i on.  mine holds the
\* positions of the pushed cards.nth(i); evaluated and resolved list the
\* cards classified by date and probed for ownership, in order.
RECURSIVE collectFrom(_, _, _, _, _, _, _)
collectFrom(cards, i, want, mine, seenKeys, evaluated, resolved) ==
  IF i > Len(cards) \/ Len(mine) >= want
  THEN [mine |-> mine, seen |-> seenKeys, evaluated |-> evaluated,
        resolved |-> resolved]
  ELSE
    LET card == cards[i]
        key == statusKey(card)
    IN IF AlreadySeen(key, seenKeys)
       THEN collectFrom(cards, i + 1, want, mine, seenKeys, evaluated, resolved)
       ELSE IF ~shouldDeleteByDate(getTweetDate(card), DELETE_BEFORE, PROTECT_AFTER)
       THEN collectFrom(cards, i + 1, want, mine, seenKeys \cup {key},
                        Append(evaluated, card), resolved)
       ELSE IF isYours(card)
       THEN collectFrom(cards, i + 1, want, Append(mine, i), seenKeys \cup {key},
                        Append(evaluated, card), Append(resolved, card))
       ELSE collectFrom(cards, i + 1, want, mine, seenKeys \cup {key},
                        Append(evaluated, card), Append(resolved, card))

collectWorklist(cards, want, seenKeys) ==
  collectFrom(cards, 1, want, <<>>, seenKeys, <<>>, <<>>)

\* ------------------------------------------------------------ target
\* variant: the target test lets one more through
Remaining_OffByOne == TARGET - removed + 1

\* TARGET - removed.count: the loops run while it is positive
Remaining == TARGET - removed


\* line 1158: if (isAborted() || removed.count >= TARGET) break;
\* variant: the break test without isAborted()
BatchBreak_NoAbortCheck == Remaining <= 0

BatchBreak == isAborted \/ Remaining <= 0

\* ------------------------------------------------------------ ActionExecutor
\* What tryDelete can return for the element cards.nth(i) resolved to
\* (0: the locator matches nothing).  A probe that times out yields its
\* fallback, so every failure below is possible for every card; a click that
\* fails is swallowed (.catch(() => {})) and the outcome is ok all the same.
tryDelete(card) ==
  IF card = 0 THEN {[ok |-> FALSE, reason |-> "no-menu", clicked |-> FALSE]}
  ELSE {[ok |-> FALSE, reason |-> "menu-empty", clicked |-> FALSE],
        [ok |-> FALSE, reason |-> "no-delete-item", clicked |-> FALSE]}
       \cup (IF timeline[card].own = "mine"
             THEN {[ok |-> TRUE, reason |-> "deleted", clicked |-> c] : c \in BOOLEAN}
             ELSE {})

tryUndoRepost(card) ==
  IF ~HANDLE_REPOSTS
  THEN {[ok |-> FALSE, reason |-> "repost-disabled", clicked |-> FALSE]}
  ELSE IF card = 0
  THEN {[ok |-> FALSE, reason |-> "no-repost-btn", clicked |-> FALSE]}
  ELSE IF timeline[card].own = "repost"
  THEN {[ok |-> TRUE, reason |-> "unreposted", clicked |-> c] : c \in BOOLEAN}
       \cup {[ok |-> FALSE, reason |-> "no-undo-item", clicked |-> FALSE],
             [ok |-> FALSE, reason |-> "no-repost-btn", clicked |-> FALSE]}
  ELSE {[ok |-> FALSE, reason |-> "not-a-repost", clicked |-> FALSE],
        [ok |-> FALSE, reason |-> "no-repost-btn", clicked |-> FALSE]}

\* lines 1168-1174: delete first, undo-repost only if delete failed
attempt(card) ==
  {d \in tryDelete(card) : d.ok} \cup
  (IF \E d \in tryDelete(card) : ~d.ok THEN tryUndoRepost(card) ELSE {})

\* ------------------------------------------------------------ runCleanup / run
\* Control of one runCleanup call.  JavaScript runs each stretch of code
\* between two awaits to completion, so abortCleanup() can only take effect
\* between the actions below; each action is one such stretch together with
\* the awaited page operation that ends it.
Configs == [target : 1..MaxTarget, posts : BOOLEAN, replies : BOOLEAN,
            reposts : BOOLEAN]
\* how many cards a (re)load of the view renders before any scrolling
InitialRenders == {TimelineLen - 1, TimelineLen}
Occurrences(s, x) == Cardinality({i \in DOMAIN s : s[i] = x})
NoReport == [kind |-> "none", stopped |-> FALSE, deleted |-> 0,
             summary |-> "none"]
NoCounts == [k \in 1..TimelineLen |-> 0]

RunInit ==
  /\ pc = "idle"
  /\ TARGET = DefaultTarget
  /\ INCLUDE_POSTS = TRUE
  /\ INCLUDE_REPLIES = TRUE
  /\ HANDLE_REPOSTS = FALSE
  /\ DELETE_BEFORE = NoDate
  /\ PROTECT_AFTER = NoDate
  /\ abortController = 0
  /\ aborted = {}
  /\ browserOpen = FALSE
  /\ tabs = <<>>
  /\ removed = 0
  /\ sweepCount = 0
  /\ deletedThisSweep = 0
  /\ noLoadCount = 0
  /\ seen = {}
  /\ work = <<>>
  /\ workIdx = 1
  /\ target = 0
  /\ loaded = 0
  /\ gone = {}
  /\ deletedCount = 0
  /\ report = NoReport
  /\ okOutcomes = 0
  /\ evalCount = NoCounts
  /\ resolveCount = NoCounts
  /\ placed = 0
  /\ navCount = 0
  /\ cancelSeen = FALSE

\* runCleanup(config, callbacks) up to the call of run()
RunCleanup(config) ==
  /\ pc = "idle"
  /\ TARGET' = (IF config.target = 0 THEN DefaultTarget ELSE config.target)
  /\ INCLUDE_POSTS' = config.posts
  /\ INCLUDE_REPLIES' = config.replies
  /\ HANDLE_REPOSTS' = config.reposts
  /\ DELETE_BEFORE' = Window.deleteBefore
  /\ PROTECT_AFTER' = Window.protectAfter
  /\ abortController' = abortController + 1
  /\ pc' = "launch"
  /\ UNCHANGED <<aborted, browserOpen, tabs, removed, sweepVars, workVars,
                 pageVars, deletedCount, report, scanHist, okOutcomes, navCount,
                 cancelSeen>>
  /\ UNCHANGED offRun

\* abortCleanup(), called by the embedding program while a run is in progress
AbortCleanup ==
  /\ pc \notin {"idle", "done"}
  /\ abortController # 0
  /\ abortController \notin aborted
  /\ aborted' = aborted \cup {abortController}
  /\ UNCHANGED <<runVars, abortController>>
  /\ UNCHANGED offRun

\* runCleanup's tail after run() returned count: 'Cleanup stopped by user'
\* if aborted, then onComplete
\* (summary: the closing line run() printed, lines 1386-1392)
RunReturns(count, summary) ==
  /\ deletedCount' = count
  /\ report' = [kind |-> "complete", stopped |-> isAborted, deleted |-> count,
                summary |-> summary]
  /\ pc' = "done"

\* run() threw: runCleanup's catch rethrows unless aborted, and otherwise
\* goes on to its tail with deletedCount still 0
RunThrows ==
  /\ report' = (IF ~isAborted
                THEN [kind |-> "rethrown", stopped |-> FALSE, deleted |-> 0,
                      summary |-> "none"]
                ELSE [kind |-> "complete", stopped |-> TRUE, deleted |-> 0,
                      summary |-> "none"])
  /\ pc' = "done"
  /\ UNCHANGED deletedCount

\* processTab returns: its locals (sweepCount, deletedThisSweep, noLoadCount,
\* seen) go out of scope
TabLocalsDropped ==
  /\ sweepCount' = 0
  /\ deletedThisSweep' = 0
  /\ noLoadCount' = 0
  /\ seen' = {}
  /\ evalCount' = NoCounts
  /\ resolveCount' = NoCounts
  /\ placed' = 0

\* run()'s for loop over the tabs, at the tab that heads rest: the break on
\* the target, else processTab, which begins with gotoProfileTab; a failed
\* navigation is rethrown through processTab and run()
NextTab(rest) ==
  /\ tabs' = rest
  /\ TabLocalsDropped
  /\ IF rest = <<>> \/ Remaining <= 0
     THEN /\ pc' = "finish"
          /\ UNCHANGED <<navCount, loaded, deletedCount, report>>
     ELSE /\ navCount' = navCount + 1
          /\ \E ok \in BOOLEAN :
               IF ok
               THEN /\ loaded' \in InitialRenders
                    /\ pc' = "sweepLoop"
                    /\ UNCHANGED <<deletedCount, report>>
               ELSE /\ RunThrows
                    /\ UNCHANGED loaded

\* run(): browser launch, ensureLoggedIn, the list of tabs, the first tab
Launch ==
  /\ pc = "launch"
  /\ \E loggedIn \in BOOLEAN :
       LET t == (IF INCLUDE_REPLIES THEN <<"Replies">> ELSE <<>>) \o
                (IF INCLUDE_POSTS THEN <<"Posts">> ELSE <<>>)
       IN IF ~loggedIn
          THEN /\ browserOpen' = FALSE
               /\ RunThrows
               /\ UNCHANGED <<tabs, removed, sweepVars, scanHist, navCount,
                              loaded>>
          ELSE IF t = <<>>
          THEN /\ browserOpen' = FALSE
               /\ RunReturns(0, "none")
               /\ UNCHANGED <<tabs, removed, sweepVars, scanHist, navCount,
                              loaded>>
          ELSE /\ browserOpen' = TRUE
               /\ removed' = 0
               /\ NextTab(t)
  /\ UNCHANGED <<cfgVars, abortVars, workVars, timeline, gone, okOutcomes,
                 cancelSeen>>
  /\ UNCHANGED offRun

FreshSeen_Kept == seen

\* line 1127: const seen = new Set();  // Fresh seen set each sweep
FreshSeen == {}

\* a sweep's locals (deletedThisSweep, noLoadCount, seen) go out of scope
SweepLocalsDropped ==
  /\ deletedThisSweep' = 0
  /\ noLoadCount' = 0
  /\ seen' = FreshSeen
  /\ evalCount' = NoCounts
  /\ resolveCount' = NoCounts
  /\ placed' = 0

\* processTab's outer while: one sweep from the top per iteration; when the
\* condition fails processTab returns and run() goes to the next tab
SweepLoop ==
  /\ pc = "sweepLoop"
  /\ IF Remaining > 0 /\ ~isAborted /\ sweepCount < MAX_SWEEPS
     THEN /\ sweepCount' = sweepCount + 1
          /\ SweepLocalsDropped
          /\ pc' = "batchLoop"
          /\ UNCHANGED <<tabs, cancelSeen, navCount, loaded, deletedCount,
                         report>>
     ELSE /\ cancelSeen' = (cancelSeen \/ (Remaining > 0 /\ isAborted))
          /\ NextTab(Tail(tabs))
  /\ UNCHANGED <<cfgVars, abortVars, browserOpen, removed, workVars, timeline,
                 gone, okOutcomes>>
  /\ UNCHANGED offRun

\* lines 1232-1246, after the inner while: an empty sweep reloads the page
\* when sweepCount is a multiple of three and otherwise ends the tab
SweepEnd ==
  IF deletedThisSweep = 0
  THEN IF sweepCount % ReloadEvery = 0
       THEN /\ loaded' \in InitialRenders
            /\ pc' = "sweepLoop"
            /\ SweepLocalsDropped
            /\ UNCHANGED <<tabs, sweepCount, navCount, deletedCount, report>>
       ELSE NextTab(Tail(tabs))
  ELSE /\ pc' = "sweepLoop"
       /\ SweepLocalsDropped
       /\ UNCHANGED <<tabs, loaded, sweepCount, navCount, deletedCount, report>>

\* lines 1205-1229, the scroll step that ends every iteration of the inner
\* while: End / PageDown / PageDown, on which the page materialises the next
\* card of the timeline when there is one; no growth in the card count adds
\* to noLoadCount
ScrollStep(noLoadBefore) ==
  /\ loaded' = Min(loaded + 1, TimelineLen)
  /\ LET beforeCount == Len(allCards)
         afterCount == Len(Rendered(1, loaded', gone))
     IN noLoadCount' = (IF afterCount <= beforeCount THEN noLoadBefore + 1
                        ELSE 0)

\* processTab's inner while: its condition, collectWorklist and, when the
\* worklist is empty, the scroll step; when the condition fails, the sweep ends
BatchLoop ==
  /\ pc = "batchLoop"
  /\ IF Remaining > 0 /\ ~isAborted /\ noLoadCount < NoLoadLimit
     THEN LET r == collectWorklist(allCards, Min(BatchLimit, Remaining), seen)
          IN /\ seen' = r.seen
             /\ work' = r.mine
             /\ workIdx' = 1
             /\ evalCount' = [k \in 1..TimelineLen |->
                                evalCount[k] + Occurrences(r.evaluated, k)]
             /\ resolveCount' = [k \in 1..TimelineLen |->
                                   resolveCount[k] + Occurrences(r.resolved, k)]
             /\ placed' = placed + Len(r.mine)
             /\ IF Len(r.mine) > 0
                THEN /\ noLoadCount' = 0
                     /\ pc' = "act"
                     /\ UNCHANGED loaded
                ELSE /\ ScrollStep(noLoadCount)
                     /\ pc' = "batchLoop"
             /\ UNCHANGED <<cancelSeen, tabs, sweepCount, deletedThisSweep,
                            navCount, deletedCount, report>>
     ELSE /\ SweepEnd
          /\ cancelSeen' = (cancelSeen \/ (Remaining > 0 /\ isAborted))
          /\ UNCHANGED <<work, workIdx>>
  /\ UNCHANGED <<cfgVars, abortVars, browserOpen, removed, target, timeline,
                 gone, okOutcomes>>
  /\ UNCHANGED offRun

\* the for loop over the worklist: the break test, then the card is scrolled
\* into view and tryDelete starts on whatever cards.nth(i) now resolves to
ActBegin ==
  /\ pc = "act"
  /\ workIdx <= Len(work)
  /\ ~BatchBreak
  /\ LET cards == allCards
         pos == work[workIdx]
     IN target' = (IF pos <= Len(cards) THEN cards[pos] ELSE 0)
  /\ pc' = "acting"
  /\ UNCHANGED <<cfgVars, abortVars, browserOpen, tabs, removed, sweepVars,
                 work, workIdx, pageVars, deletedCount, report, scanHist,
                 okOutcomes, navCount, cancelSeen>>
  /\ UNCHANGED offRun

\* the action in flight completes or fails; counters; pause(MIN, MAX)
ActEnd ==
  /\ pc = "acting"
  /\ \E res \in attempt(target) :
       /\ removed' = (IF res.ok THEN removed + 1 ELSE removed)
       /\ deletedThisSweep' = (IF res.ok THEN deletedThisSweep + 1
                               ELSE deletedThisSweep)
       /\ okOutcomes' = (IF res.ok THEN okOutcomes + 1 ELSE okOutcomes)
       /\ gone' = (IF res.ok /\ res.clicked THEN gone \cup {target} ELSE gone)
  /\ workIdx' = workIdx + 1
  /\ target' = 0
  /\ pc' = "act"
  /\ UNCHANGED <<cfgVars, abortVars, browserOpen, tabs, sweepCount, noLoadCount,
                 seen, work, timeline, loaded, deletedCount, report, scanHist,
                 navCount, cancelSeen>>
  /\ UNCHANGED offRun

\* the for loop ends (worklist done, or break); the cooldown pause; the
\* scroll step
ActLeave ==
  /\ pc = "act"
  /\ workIdx > Len(work) \/ BatchBreak
  /\ cancelSeen' = (cancelSeen \/ (workIdx <= Len(work) /\ isAborted))
  /\ work' = <<>>
  /\ workIdx' = 1
  /\ ScrollStep(noLoadCount)
  /\ pc' = "batchLoop"
  /\ UNCHANGED <<cfgVars, abortVars, browserOpen, tabs, removed, sweepCount,
                 deletedThisSweep, seen, target, timeline, gone, deletedCount,
                 report, scanHist, okOutcomes, navCount>>
  /\ UNCHANGED offRun

\* run() after the loop: session saved, browser closed, removed.count
\* returned to runCleanup
Finish ==
  /\ pc = "finish"
  /\ browserOpen' = FALSE
  /\ RunReturns(removed, IF removed >= TARGET THEN "target-reached"
                                 ELSE "no-more-matching")
  /\ UNCHANGED <<cfgVars, abortVars, tabs, removed, sweepVars, workVars,
                 pageVars, scanHist, okOutcomes, navCount, cancelSeen>>
  /\ UNCHANGED offRun

Next ==
  \/ \E config \in Configs : RunCleanup(config)
  \/ AbortCleanup
  \/ Launch
  \/ SweepLoop
  \/ BatchLoop
  \/ ActBegin
  \/ ActEnd
  \/ ActLeave
  \/ Finish

\* ------------------------------------------------- shouldDeleteByDate alone
\* One call of shouldDeleteByDate on a card whose date reads cT (NoDate: null)
\* under a window DELETE_BEFORE = cDB, PROTECT_AFTER = cPA.
ClassifyIdle ==
  /\ cT = NoDate /\ cDB = 0 /\ cPA = 0 /\ cTag = "none" /\ cRet = FALSE

CallShouldDeleteByDate ==
  /\ cTag = "none"
  /\ cTag' = Classify(cT, cDB, cPA)
  /\ cRet' = shouldDeleteByDate(cT, cDB, cPA)
  /\ UNCHANGED <<cT, cDB, cPA>>
  /\ UNCHANGED offClassify

\* -------------------------------------- runCleanup calls and abortController
\* runCleanup and abortCleanup are exported; nothing keeps a caller from
\* calling runCleanup while an earlier call has not settled.  Each call
\* stores a fresh controller in the one module variable (line 1454), and
\* every isAborted() of every call in progress reads that variable.
Runs == 1..MaxRuns

ProtoIdle ==
  /\ runState = [r \in Runs |-> "none"]
  /\ raisedFor = {}
  /\ polled = [r \in Runs |-> <<>>]

CallRunCleanup(r) ==
  /\ runState[r] = "none"
  /\ abortController' = abortController + 1
  /\ runState' = [runState EXCEPT ![r] = "running"]
  /\ UNCHANGED <<aborted, raisedFor, polled>>
  /\ UNCHANGED offCancel

CallAbortCleanup ==
  /\ \E r \in Runs : runState[r] = "running"
  /\ aborted' = (IF abortController # 0 THEN aborted \cup {abortController}
                 ELSE aborted)
  /\ raisedFor' = raisedFor \cup {r \in Runs : runState[r] = "running"}
  /\ UNCHANGED <<abortController, runState, polled>>
  /\ UNCHANGED offCancel

\* a loop condition or the tail of call r evaluates isAborted()
PollIsAborted(r) ==
  /\ runState[r] = "running"
  /\ Len(polled[r]) < MaxPolls
  /\ polled' = [polled EXCEPT ![r] = Append(@, isAborted)]
  /\ UNCHANGED <<abortVars, runState, raisedFor>>
  /\ UNCHANGED offCancel

\* the promise of call r settles
RunCleanupSettles(r) ==
  /\ runState[r] = "running"
  /\ runState' = [runState EXCEPT ![r] = "done"]
  /\ UNCHANGED <<abortVars, raisedFor, polled>>
  /\ UNCHANGED offCancel

\* ------------------------------------------------------------ desktop shell
Children == 1..MaxChildren

\* what index.js writes to its output around one action: nothing that
\* begins with __DMT_EVENT__; a success redraws the progress bar, a failure
\* logs 'Skipped: <reason>'
LinesOfOutcome(ok) ==
  IF ok THEN <<[kind |-> "progress", count |-> 0]>>
  ELSE <<[kind |-> "log", count |-> 0]>>
ChildAlive(p) == childPc[p] \in {"between", "acting"}

GuiIdle ==
  /\ isCleanupRunning = FALSE
  /\ cleanupProcess = 0
  /\ licenseFile = "none"
  /\ startPending = 0
  /\ childPc = [p \in Children |-> "none"]
  /\ childDeleted = [p \in Children |-> 0]
  /\ serverAnswer = "none"
  /\ cleanupStats = [deleted |-> 0]
  /\ childOut = <<>>
  /\ progressSent = 0
  /\ normalizedHandle = "none"

\* variant: a license is returned unless the server called the key invalid
LicenseReturned_UnlessInvalid(answer) == answer # "invalid"

\* ensureRuntimeLicense after the await: the license is returned only when
\* validateLicenseWithServer resolved with valid; an invalid answer and a
\* thrown fetch both return null
LicenseReturned(answer) == answer = "valid"

\* variant: the license file is deleted on every failed validation
LicenseFileAfter_AlwaysDeleted(answer, file) ==
  IF answer = "valid" THEN file ELSE "none"

\* the license file once ensureRuntimeLicense has returned: deleteLicenseData
\* runs in the branch of an invalid answer only, the catch branch of a
\* thrown fetch leaves the file alone
LicenseFileAfter(answer, file) ==
  IF answer = "invalid" THEN "none" ELSE file

\* ipcMain.on('start-cleanup') up to the await on the license server: the
\* isCleanupRunning test, normalizeHandle, and ensureRuntimeLicense's test of
\* the stored license
StartCleanup ==
  /\ startPending < MaxPending
  /\ \E handleOk \in BOOLEAN :
       /\ startPending' = (IF ~isCleanupRunning /\ handleOk /\ licenseFile = "valid"
                           THEN startPending + 1 ELSE startPending)
       /\ normalizedHandle' = (IF isCleanupRunning THEN normalizedHandle
                               ELSE IF handleOk THEN "ok" ELSE "null")
  /\ UNCHANGED <<isCleanupRunning, cleanupProcess, licenseFile, childPc,
                 childDeleted, serverAnswer, cleanupStats, childOut,
                 progressSent>>
  /\ UNCHANGED offGui

\* ensureRuntimeLicense resumes with the server's answer; on valid the
\* handler sets isCleanupRunning and spawns the CLI child
LicenseAnswered ==
  /\ startPending > 0
  /\ startPending' = startPending - 1
  /\ \E answer \in {"valid", "invalid", "unreachable"} :
       /\ serverAnswer' = answer
       /\ IF LicenseReturned(answer)
          THEN \E p \in Children :
                 /\ childPc[p] = "none"
                 /\ \A q \in Children : q < p => childPc[q] # "none"
                 /\ isCleanupRunning' = TRUE
                 /\ cleanupProcess' = p
                 /\ childPc' = [childPc EXCEPT ![p] = "between"]
                 /\ cleanupStats' = [deleted |-> 0]
                 /\ childOut' = <<>>
                 /\ UNCHANGED licenseFile
          ELSE /\ licenseFile' = LicenseFileAfter(answer, licenseFile)
               /\ UNCHANGED <<isCleanupRunning, cleanupProcess, childPc,
                              cleanupStats, childOut>>
  /\ UNCHANGED <<childDeleted, progressSent, normalizedHandle>>
  /\ UNCHANGED offGui

\* the child (index.js run as CLI: no abortController, no signal handler)
\* starts a delete or undo-repost action on a worklist item
ChildActBegins(p) ==
  /\ childPc[p] = "between"
  /\ childDeleted[p] < MaxChildDeleted
  /\ childPc' = [childPc EXCEPT ![p] = "acting"]
  /\ UNCHANGED <<isCleanupRunning, cleanupProcess, licenseFile, startPending,
                 childDeleted, shellVars>>
  /\ UNCHANGED offGui

\* the child's action in flight completes or fails
ChildActEnds(p) ==
  /\ childPc[p] = "acting"
  /\ childPc' = [childPc EXCEPT ![p] = "between"]
  /\ \E ok \in BOOLEAN :
       /\ childDeleted' = [childDeleted EXCEPT ![p] = IF ok THEN @ + 1 ELSE @]
       /\ childOut' = IF p = cleanupProcess /\ Len(childOut) < MaxOut
                      THEN childOut \o LinesOfOutcome(ok)
                      ELSE childOut
  /\ UNCHANGED <<isCleanupRunning, cleanupProcess, licenseFile, startPending,
                 serverAnswer, cleanupStats, progressSent, normalizedHandle>>
  /\ UNCHANGED offGui

\* the child's run() is over and the process exits
ChildExits(p) ==
  /\ childPc[p] = "between"
  /\ childPc' = [childPc EXCEPT ![p] = "exited"]
  /\ UNCHANGED <<isCleanupRunning, cleanupProcess, licenseFile, startPending,
                 childDeleted, shellVars>>
  /\ UNCHANGED offGui

\* cleanupProcess.on('close')
OnClose(p) ==
  /\ childPc[p] \in {"exited", "killed"}
  /\ childPc' = [childPc EXCEPT ![p] = "closed"]
  /\ isCleanupRunning' = FALSE
  /\ cleanupProcess' = 0
  /\ UNCHANGED <<licenseFile, startPending, childDeleted, shellVars>>
  /\ UNCHANGED offGui

\* ipcMain.on('stop-cleanup'): SIGTERM ends the child wherever it is
StopCleanup ==
  /\ childPc' = (IF cleanupProcess # 0 /\ ChildAlive(cleanupProcess)
                 THEN [childPc EXCEPT ![cleanupProcess] = "killed"]
                 ELSE childPc)
  /\ isCleanupRunning' = FALSE
  /\ UNCHANGED <<cleanupProcess, licenseFile, startPending, childDeleted,
                 shellVars>>
  /\ UNCHANGED offGui

\* parseAndSend on one line of the child's output: a __DMT_EVENT__ line of
\* type deleted sets cleanupStats.deleted, any other line is forwarded as a
\* log; both send cleanup-progress
ParseAndSend ==
  /\ childOut # <<>>
  /\ LET line == Head(childOut)
     IN cleanupStats' = IF line.kind = "event"
                        THEN [deleted |-> line.count]
                        ELSE cleanupStats
  /\ progressSent' = cleanupStats'.deleted
  /\ childOut' = Tail(childOut)
  /\ UNCHANGED <<isCleanupRunning, cleanupProcess, licenseFile, startPending,
                 childPc, childDeleted, serverAnswer, normalizedHandle>>
  /\ UNCHANGED offGui

\* ------------------------------------------------------------ specifications
(***************************************************************************)
(* processTab's two loops (src/index.js 1111-1250) over a page that is      *)
(* known only by its counts: how many rendered cards collectWorklist would  *)
(* accept, how many of them the sweep has not yet seen, and whether the     *)
(* rendered card count grew across a scroll step.  No cancellation happens. *)
(***************************************************************************)
SweepsIdle ==
  /\ swPc = "idle"
  /\ pool = 0
  /\ fresh = 0
  /\ noGrowthRun = 0
  /\ emptyRun = 0
  /\ endedBy = "none"

\* what processTab's loops never touch
sweepsFrame == <<pc, INCLUDE_POSTS, INCLUDE_REPLIES, HANDLE_REPOSTS,
                 DELETE_BEFORE, PROTECT_AFTER, browserOpen, tabs, seen, work,
                 workIdx, target, timeline, loaded, gone, deletedCount, report,
                 okOutcomes, evalCount, resolveCount, placed, navCount,
                 cancelSeen, abortVars, classifyVars, protoVars, guiVars,
                 execVars, laterVars>>

\* while (removed.count < TARGET && !isAborted() && sweepCount < MAX_SWEEPS)
TabGoesOn == removed < TARGET /\ ~isAborted /\ sweepCount < MAX_SWEEPS

\* while (removed.count < TARGET && !isAborted() && noLoadCount < 10)
SweepGoesOn == removed < TARGET /\ ~isAborted /\ noLoadCount < NoLoadLimit

\* processTab(page, tabName, removed, startTime) up to the outer loop, with
\* the TARGET that applyConfig left and the page that gotoProfileTab shows
ProcessTab ==
  /\ swPc = "idle"
  /\ \E t \in 1..TabTarget : TARGET' = t
  /\ \E p \in 0..MaxPool : pool' = p
  /\ sweepCount' = 0
  /\ swPc' = "sweepTop"
  /\ UNCHANGED <<removed, deletedThisSweep, noLoadCount, fresh, noGrowthRun,
                 emptyRun, endedBy, sweepsFrame>>

\* the outer loop's test and the head of a sweep: new counters, a fresh seen
\* set, scrollToTop
SweepBegins ==
  /\ swPc = "sweepTop"
  /\ IF TabGoesOn
       THEN /\ sweepCount' = sweepCount + 1
            /\ deletedThisSweep' = 0
            /\ noLoadCount' = 0
            /\ fresh' = pool
            /\ noGrowthRun' = 0
            /\ swPc' = "batchTop"
            /\ UNCHANGED endedBy
       ELSE /\ swPc' = "tabDone"
            /\ endedBy' = "condition"
            /\ UNCHANGED <<sweepCount, deletedThisSweep, noLoadCount, fresh,
                           noGrowthRun>>
  /\ UNCHANGED <<TARGET, removed, pool, emptyRun, sweepsFrame>>

\* one pass of the inner loop: collectWorklist, the action on each item of
\* the worklist, the scroll step and its growth test
SweepIterates ==
  /\ swPc = "batchTop"
  /\ SweepGoesOn
  /\ LET found == Min(Min(BatchLimit, Remaining), fresh) IN
     \E nOk \in 0..found : \E nGone \in 0..nOk : \E grew \in BOOLEAN :
     \E add \in 0..1 :
       LET poolLeft == pool - nGone
           freshLeft == fresh - found
           noLoadBefore == IF found > 0 THEN 0 ELSE noLoadCount
       IN /\ grew \/ add = 0
          /\ removed' = removed + nOk
          /\ deletedThisSweep' = deletedThisSweep + nOk
          /\ pool' = Min(poolLeft + add, MaxPool)
          /\ fresh' = Min(freshLeft + add, MaxPool)
          /\ noLoadCount' = IF grew THEN 0 ELSE noLoadBefore + 1
          /\ noGrowthRun' = IF grew THEN 0
                            ELSE Min(noGrowthRun + 1, NoLoadLimit + 1)
  /\ UNCHANGED <<TARGET, sweepCount, swPc, emptyRun, endedBy, sweepsFrame>>

\* the end of a sweep: go on after deletions, reload after every third sweep
\* when it was empty, leave the tab after any other empty sweep
SweepEnds ==
  /\ swPc = "batchTop"
  /\ ~SweepGoesOn
  /\ IF deletedThisSweep = 0
       THEN /\ emptyRun' = emptyRun + 1
            /\ IF sweepCount % ReloadEvery = 0
                 THEN /\ \E p \in 0..MaxPool : pool' = p
                      /\ swPc' = "sweepTop"
                      /\ UNCHANGED endedBy
                 ELSE /\ swPc' = "tabDone"
                      /\ endedBy' = "no-more"
                      /\ UNCHANGED pool
       ELSE /\ emptyRun' = 0
            /\ swPc' = "sweepTop"
            /\ UNCHANGED <<pool, endedBy>>
  /\ UNCHANGED <<TARGET, removed, sweepCount, deletedThisSweep, noLoadCount,
                 fresh, noGrowthRun, sweepsFrame>>

(***************************************************************************)
(* The executors and the ownership test against the page-interaction       *)
(* layer.  Every awaited probe of the card settles in one of several ways: *)
(* it resolves with a value, it outlasts its timer, or it rejects.         *)
(***************************************************************************)
\* how a locator's count() settles; "timeout" is a count that never settles
Probe == {"none", "some", "timeout", "reject"}

\* how the count of the open menu's items settles, with what the items say:
\* "match" has the sought entry (Delete, Undo Repost), "other" has not
MenuProbe == {"none", "other", "match", "timeout", "reject"}

NoProbes ==
  [more |-> "none", items |-> "none", confirm |-> "none",
   unretweet |-> "none", popup |-> "none", retweet |-> "none",
   author |-> "none", userName |-> "none", repostMark |-> FALSE]

\* the probes made while a worklist item is acted on
ItemProbes ==
  {[NoProbes EXCEPT !.more = m, !.items = i, !.confirm = c, !.unretweet = u,
                    !.popup = q, !.retweet = r] :
     m \in Probe, i \in MenuProbe, c \in Probe, u \in Probe,
     q \in MenuProbe, r \in Probe}

\* the probes made while isYours looks at a card
OwnerProbes ==
  {[NoProbes EXCEPT !.author = a, !.userName = n, !.repostMark = k,
                    !.more = m, !.items = i] :
     a \in Probe, n \in Probe, k \in BOOLEAN, m \in Probe, i \in MenuProbe}

NoRes == [kind |-> "none", ok |-> FALSE, reason |-> "none", touched |-> FALSE]
Returned(ok, reason) ==
  [kind |-> "returned", ok |-> ok, reason |-> reason, touched |-> TRUE]
Threw == [kind |-> "threw", ok |-> FALSE, reason |-> "none", touched |-> TRUE]
\* the call is still waiting on a promise that never settles
Pending == [kind |-> "pending", ok |-> FALSE, reason |-> "none", touched |-> TRUE]

\* Promise.race([promise, timer]): the timer turns a late answer into the
\* fallback; a rejection of promise rejects the race
withTimeout(outcome, fallback) ==
  CASE outcome = "timeout" -> fallback
    [] outcome = "reject" -> "throws"
    [] OTHER -> outcome

\* if (!(await more.count())) return false; click(...).catch(); return true
\* more.count() is awaited without withTimeout
openMenu(p) ==
  CASE p.more = "reject" -> "throws"
    [] p.more = "timeout" -> "pending"
    [] p.more = "none" -> "false"
    [] OTHER -> "true"

\* clickMenuItem(page, regex): true when an item matching regex was clicked
clickMenuItem(itemsProbe) ==
  LET n == withTimeout(itemsProbe, "none")
  IN CASE n = "throws" -> "throws"
       [] n = "match" -> "true"
       [] OTHER -> "false"

\* confirmDeleteIfNeeded(page)
confirmDeleteIfNeeded(p) ==
  IF withTimeout(p.confirm, "none") = "throws" THEN "throws" ELSE "done"

\* tryDelete(page, card) against the probes p
tryDeleteOn(p) ==
  LET opened == openMenu(p)
      n == withTimeout(p.items, "none")
  IN CASE opened = "throws" -> Threw
       [] opened = "pending" -> Pending
       [] opened = "false" -> Returned(FALSE, "no-menu")
       [] n = "throws" -> Threw
       [] n = "none" -> Returned(FALSE, "menu-empty")
       [] n = "match" -> IF confirmDeleteIfNeeded(p) = "throws"
                         THEN Threw
                         ELSE Returned(TRUE, "deleted")
       [] OTHER -> Returned(FALSE, "no-delete-item")

\* tryUndoRepost(page, card) against the probes p
tryUndoRepostOn(p) ==
  IF ~HANDLE_REPOSTS
  THEN [Returned(FALSE, "repost-disabled") EXCEPT !.touched = FALSE]
  ELSE
    LET unretweetCount == withTimeout(p.unretweet, "none")
        clicked == clickMenuItem(p.popup)
        retweetCount == withTimeout(p.retweet, "none")
    IN CASE unretweetCount = "throws" -> Threw
         [] unretweetCount = "some" ->
              (CASE clicked = "throws" -> Threw
                 [] clicked = "true" -> Returned(TRUE, "unreposted")
                 [] OTHER -> Returned(FALSE, "no-undo-item"))
         [] retweetCount = "throws" -> Threw
         [] retweetCount = "some" -> Returned(FALSE, "not-a-repost")
         [] OTHER -> Returned(FALSE, "no-repost-btn")

\* menuHasDelete(page, card) against the probes p
menuHasDeleteOn(p) ==
  LET opened == openMenu(p)
      n == withTimeout(p.items, "none")
  IN CASE opened = "throws" -> "throws"
       [] opened = "pending" -> "pending"
       [] opened = "false" -> "false"
       [] n = "throws" -> "throws"
       [] n = "match" -> "true"
       [] OTHER -> "false"

\* isYours(page, card) against the probes p; isUserRepost has its own
\* try/catch and settles as the boolean p.repostMark
isYoursOn(p) ==
  LET authorLink == withTimeout(p.author, "none")
      userNameLink == withTimeout(p.userName, "none")
      last == menuHasDeleteOn(p)
  IN CASE authorLink = "throws" -> "threw"
       [] authorLink = "some" -> "true"
       [] userNameLink = "throws" -> "threw"
       [] userNameLink = "some" -> "true"
       [] HANDLE_REPOSTS /\ p.repostMark -> "true"
       [] last = "throws" -> "threw"
       [] OTHER -> last

\* isYours gets as far as its last resort, menuHasDelete
reachesMenuHasDelete(p) ==
  /\ withTimeout(p.author, "none") \notin {"throws", "some"}
  /\ withTimeout(p.userName, "none") \notin {"throws", "some"}
  /\ ~(HANDLE_REPOSTS /\ p.repostMark)

\* menuHasDelete, tryDelete, tryUndoRepost: Escape (or the click on the
\* entry) follows the count of the open menu's items, and is skipped when
\* that count rejects
menuLeftOpen(itemsProbe, opened) ==
  opened /\ withTimeout(itemsProbe, "none") = "throws"

FallbackNeeded_Always(d) == TRUE

\* line 1171: if (!deleteRes.ok)
FallbackNeeded(d) == ~d.ok

ExecIdle ==
  /\ exPc = "idle"
  /\ probes = NoProbes
  /\ deleteRes = NoRes
  /\ undoRes = NoRes
  /\ counted = 0
  /\ yours = "none"
  /\ menuOpen = FALSE

\* what neither the executors nor isYours touch
execFrame == <<pc, TARGET, INCLUDE_POSTS, INCLUDE_REPLIES, DELETE_BEFORE,
               PROTECT_AFTER, browserOpen, tabs, removed, sweepCount,
               deletedThisSweep, noLoadCount, seen, work, workIdx, target,
               timeline, loaded, gone, deletedCount, report, okOutcomes,
               evalCount, resolveCount, placed, navCount, cancelSeen,
               abortVars, classifyVars, protoVars, guiVars, sweepsVars,
               laterVars>>

\* processTab's for loop takes a card of the worklist, under the repost
\* setting that applyConfig left
ItemBegins ==
  /\ exPc = "idle"
  /\ \E h \in BOOLEAN : HANDLE_REPOSTS' = h
  /\ \E p \in ItemProbes : probes' = p
  /\ exPc' = "delete"
  /\ UNCHANGED <<deleteRes, undoRes, counted, yours, menuOpen, execFrame>>

\* let deleteRes = await tryDelete(page, card); let res = deleteRes;
CallTryDelete ==
  /\ exPc = "delete"
  /\ tryDeleteOn(probes) # Pending
  /\ LET d == tryDeleteOn(probes)
     IN /\ deleteRes' = d
        /\ exPc' = IF d.kind = "threw" THEN "caught"
                   ELSE IF FallbackNeeded(d) THEN "undo"
                   ELSE "count"
  /\ menuOpen' = menuLeftOpen(probes.items, openMenu(probes) = "true")
  /\ UNCHANGED <<HANDLE_REPOSTS, probes, undoRes, counted, yours, execFrame>>

\* res = await tryUndoRepost(page, card);
CallTryUndoRepost ==
  /\ exPc = "undo"
  /\ LET u == tryUndoRepostOn(probes)
     IN /\ undoRes' = u
        /\ exPc' = IF u.kind = "threw" THEN "caught" ELSE "count"
  /\ menuOpen' = (menuOpen \/
                    menuLeftOpen(probes.popup,
                                 HANDLE_REPOSTS /\
                                 withTimeout(probes.unretweet, "none") = "some"))
  /\ UNCHANGED <<HANDLE_REPOSTS, probes, deleteRes, counted, yours, execFrame>>

\* if (res.ok) { removed.count++; deletedThisSweep++; ... }
ItemCounted ==
  /\ exPc = "count"
  /\ LET final == IF undoRes.kind = "none" THEN deleteRes ELSE undoRes
     IN counted' = IF final.ok THEN counted + 1 ELSE counted
  /\ exPc' = "itemDone"
  /\ UNCHANGED <<HANDLE_REPOSTS, probes, deleteRes, undoRes, yours, menuOpen,
                 execFrame>>

\* catch (e) { log("error", "Delete failed (continuing)", ...) }
ItemCaught ==
  /\ exPc = "caught"
  /\ exPc' = "itemDone"
  /\ UNCHANGED <<HANDLE_REPOSTS, probes, deleteRes, undoRes, counted, yours,
                 menuOpen, execFrame>>

\* collectWorklist's call of isYours on a card that passed the date filter;
\* nothing between isYours and runCleanup's catch handles what it throws
CallIsYours ==
  /\ exPc = "idle"
  /\ \E h \in BOOLEAN : HANDLE_REPOSTS' = h
  /\ \E p \in OwnerProbes : probes' = p
  /\ yours' = isYoursOn(probes')
  /\ menuOpen' = (reachesMenuHasDelete(probes') /\
                    menuLeftOpen(probes'.items, openMenu(probes') = "true"))
  /\ exPc' = CASE yours' = "threw" -> "runFailed"
               [] yours' = "pending" -> "probing"
               [] OTHER -> "probed"
  /\ UNCHANGED <<deleteRes, undoRes, counted, execFrame>>

\* the next card of the worklist, or of collectWorklist's scan
NextItem ==
  /\ exPc \in {"itemDone", "probed"}
  /\ exPc' = "idle"
  /\ probes' = NoProbes
  /\ deleteRes' = NoRes
  /\ undoRes' = NoRes
  /\ counted' = 0
  /\ yours' = "none"
  /\ menuOpen' = FALSE
  /\ UNCHANGED <<HANDLE_REPOSTS, execFrame>>

(***************************************************************************)
(* The pacing of processTab's actions (src/index.js 1153-1203): the        *)
(* ordinary pause after every item and the pause of three seconds after a  *)
(* worklist, with the items known only by whether their action succeeded.  *)
(***************************************************************************)
PaceIdle ==
  /\ pacePc = "idle"
  /\ workLeft = 0
  /\ cooledAt = 0
  /\ streak = 0

NavIdle ==
  /\ navPc = "idle"
  /\ tabsLeft = 0
  /\ gotoCount = 0
  /\ tabActions = 0
  /\ navFailed = FALSE

SessIdle ==
  /\ sessFile = FALSE
  /\ sessAge = 0
  /\ sessResult = "none"
  /\ checkedAge = -1

Customers == 1..MaxCustomers

NoEvent == [type |-> "none", customer |-> 0, paid |-> FALSE, status |-> 0]
NoAnswer == [key |-> 0, status |-> 0, valid |-> FALSE]

LicIdle ==
  /\ customers = [c \in Customers |->
                    [license_key |-> 0, license_status |-> "none"]]
  /\ keysIssued = 0
  /\ whEvent = NoEvent
  /\ validateRes = NoAnswer

Streams == {"stdout", "stderr"}

PipeIdle ==
  /\ pipe = [s \in Streams |-> <<>>]
  /\ linesWritten = 0
  /\ blankLines = {}
  /\ partial = {}
  /\ outputBuffer = <<>>
  /\ forwarded = <<>>
  /\ closeSeen = FALSE

\* let SPEED = "normal"; let MIN_DELAY_MS = 1200; let MAX_DELAY_MS = 2200;
DelayIdle ==
  /\ SPEED = "normal"
  /\ MIN_DELAY_MS = 1200
  /\ MAX_DELAY_MS = 2200
  /\ delayPc = "config"
  /\ lastAttempt = "none"
  /\ lastDelay = 0
  /\ attemptsMade = 0
  /\ pausesMade = 0
  /\ removedCount = 0

LastIdle == LicIdle /\ PipeIdle /\ DelayIdle

LaterIdle == PaceIdle /\ NavIdle /\ SessIdle /\ LastIdle

\* what the pacing never touches
paceFrame == <<pc, cfgVars, browserOpen, tabs, sweepVars, workVars, pageVars,
               deletedCount, report, okOutcomes, scanHist, navCount,
               cancelSeen, abortVars, classifyVars, protoVars, guiVars,
               sweepsVars, execVars, navVars, sessVars, lastVars>>

\* if (removed.count % 100 === 0 && removed.count > 0)
CooldownDue == removed % CooldownEvery = 0 /\ removed > 0

\* processTab is entered with removed.count = 0
PaceBegins ==
  /\ pacePc = "idle"
  /\ pacePc' = "batch"
  /\ UNCHANGED <<removed, workLeft, cooledAt, streak, paceFrame>>

\* collectWorklist returns a worklist of up to ten items
PaceWorklist ==
  /\ pacePc = "batch"
  /\ removed < MaxPaced
  /\ \E n \in 0..BatchLimit :
       /\ workLeft' = n
       /\ pacePc' = IF n > 0 THEN "item" ELSE "batch"
  /\ UNCHANGED <<removed, cooledAt, streak, paceFrame>>

\* one item of the for loop: the action, the count, pause(MIN_DELAY_MS,
\* MAX_DELAY_MS)
PaceItem ==
  /\ pacePc = "item"
  /\ workLeft > 0
  /\ removed < MaxPaced
  /\ \E ok \in BOOLEAN :
       /\ removed' = IF ok THEN removed + 1 ELSE removed
       /\ streak' = IF ok THEN Min(streak + 1, MaxStreak) ELSE streak
  /\ workLeft' = workLeft - 1
  /\ UNCHANGED <<pacePc, cooledAt, paceFrame>>

\* after the for loop: the rate limit protection
PaceWorklistEnds ==
  /\ pacePc = "item"
  /\ workLeft = 0 \/ removed >= MaxPaced
  /\ IF CooldownDue
     THEN cooledAt' = removed /\ streak' = 0
     ELSE UNCHANGED <<cooledAt, streak>>
  /\ workLeft' = 0
  /\ pacePc' = "batch"
  /\ UNCHANGED <<removed, paceFrame>>

(***************************************************************************)
(* Navigation: gotoProfileTab (src/index.js 794-822) as processTab calls    *)
(* it, and the way its failure travels through run() to runCleanup's catch. *)
(***************************************************************************)
\* what navigation never touches
navFrame == <<runVars, classifyVars, protoVars, guiVars, sweepsVars, execVars,
              paceVars, sessVars, lastVars>>

Rethrows_Never == FALSE

\* runCleanup's catch: if (!isAborted()) { ...; throw err; }
Rethrows == ~isAborted

\* runCleanup, for the first time or again after an earlier run has ended,
\* creates the abort controller and calls run(), whose list holds one or two
\* tabs; processTab calls gotoProfileTab for the first
NavRunCleanup ==
  /\ navPc \in {"idle", "finished", "rethrown", "stopped"}
  /\ abortController < MaxRuns
  /\ abortController' = abortController + 1
  /\ \E n \in 1..2 : tabsLeft' = n
  /\ navPc' = "goto"
  /\ gotoCount' = 0
  /\ tabActions' = 0
  /\ navFailed' = FALSE
  /\ UNCHANGED <<aborted, navFrame>>

\* abortCleanup() while the run is in progress
NavAbortCleanup ==
  /\ navPc \in {"goto", "retry", "loaded", "threw"}
  /\ abortController \notin aborted
  /\ aborted' = aborted \cup {abortController}
  /\ UNCHANGED <<abortController, navVars, navFrame>>

\* page.goto(url, domcontentloaded), waitForSelector("main"), the test of
\* page.url(): either of the first two may reject
NavGoto ==
  /\ navPc = "goto"
  /\ gotoCount' = gotoCount + 1
  /\ \E outcome \in {"ok", "wrongUrl", "fails"} :
       /\ navPc' = CASE outcome = "ok" -> "loaded"
                     [] outcome = "wrongUrl" -> "retry"
                     [] OTHER -> "threw"
       /\ navFailed' = (outcome = "fails")
  /\ UNCHANGED <<abortVars, tabsLeft, tabActions, navFrame>>

\* page.goto(url, networkidle) after a wrong URL; it may reject
NavRetry ==
  /\ navPc = "retry"
  /\ gotoCount' = gotoCount + 1
  /\ \E outcome \in {"ok", "fails"} :
       /\ navPc' = IF outcome = "ok" THEN "loaded" ELSE "threw"
       /\ navFailed' = (outcome = "fails")
  /\ UNCHANGED <<abortVars, tabsLeft, tabActions, navFrame>>

\* an action of processTab's loops on the tab that was loaded
NavTabAction ==
  /\ navPc = "loaded"
  /\ tabActions < MaxTabActions
  /\ tabActions' = tabActions + 1
  /\ UNCHANGED <<abortVars, navPc, tabsLeft, gotoCount, navFailed, navFrame>>

\* processTab returns; run() goes to the next tab or to its end, and
\* runCleanup to onComplete
NavTabReturns ==
  /\ navPc = "loaded"
  /\ tabsLeft' = tabsLeft - 1
  /\ IF tabsLeft' > 0
     THEN navPc' = "goto" /\ gotoCount' = 0 /\ tabActions' = 0
     ELSE navPc' = "finished" /\ UNCHANGED <<gotoCount, tabActions>>
  /\ UNCHANGED <<abortVars, navFailed, navFrame>>

\* gotoProfileTab rethrows, processTab and run() have no handler, and
\* runCleanup's catch rethrows or, when aborted, goes on to onComplete
NavThrown ==
  /\ navPc = "threw"
  /\ navPc' = IF Rethrows THEN "rethrown" ELSE "stopped"
  /\ UNCHANGED <<abortVars, tabsLeft, gotoCount, tabActions, navFailed,
                 navFrame>>

(***************************************************************************)
(* The saved login session (src/index.js 236, 272-299, 1384).                *)
(***************************************************************************)
\* what the session file's handling never touches
sessFrame == <<runVars, abortVars, classifyVars, protoVars, guiVars,
               sweepsVars, execVars, paceVars, navVars, lastVars>>

\* if (age > SESSION_EXPIRY_MS)
Expired(age) == age > SessionExpiryDays

\* context.storageState({ path: getStoragePath(PROFILE_HANDLE) })
SaveSession ==
  /\ sessFile' = TRUE
  /\ sessAge' = 0
  /\ UNCHANGED <<sessResult, checkedAge, sessFrame>>

\* a day passes
DayPasses ==
  /\ sessFile
  /\ sessAge < MaxAge
  /\ sessAge' = sessAge + 1
  /\ UNCHANGED <<sessFile, sessResult, checkedAge, sessFrame>>

\* isSessionValid(handle); statSync or unlinkSync may throw
IsSessionValid ==
  /\ checkedAge' = IF sessFile THEN sessAge ELSE -1
  /\ IF ~sessFile
     THEN sessResult' = "false" /\ UNCHANGED sessFile
     ELSE \E fsThrows \in BOOLEAN :
            IF Expired(sessAge)
            THEN /\ sessResult' = "false"
                 /\ sessFile' = fsThrows
            ELSE /\ sessResult' = IF fsThrows THEN "false" ELSE "true"
                 /\ UNCHANGED sessFile
  /\ UNCHANGED <<sessAge, sessFrame>>

\* clearSession(handle)
ClearSession ==
  /\ sessFile
  /\ sessFile' = FALSE
  /\ UNCHANGED <<sessAge, sessResult, checkedAge, sessFrame>>

(***************************************************************************)
(* The license server: the Stripe webhook and validate-license handlers    *)
(* (src/api/stripe-webhook.js 36-130 and 145-220) over the metadata of the *)
(* Stripe customers.  stripe.customers.update merges the given metadata   *)
(* keys into the stored ones.                                              *)
(***************************************************************************)
\* what the license server never touches
licFrame == <<runVars, abortVars, classifyVars, protoVars, guiVars,
              sweepsVars, execVars, paceVars, navVars, sessVars, pipeVars,
              delayVars>>

\* validate-license: the first customer whose metadata.license_key equals
\* the key decides; valid unless its license_status is 'revoked'; 404 when
\* no customer holds the key
validateLicense(cs, key) ==
  IF \E c \in Customers : cs[c].license_key = key
  THEN LET c == CHOOSE c \in Customers :
                  /\ cs[c].license_key = key
                  /\ \A d \in Customers : cs[d].license_key = key => c <= d
       IN [key |-> key, status |-> 200,
           valid |-> cs[c].license_status # "revoked"]
  ELSE [key |-> key, status |-> 404, valid |-> FALSE]

\* case 'checkout.session.completed': unpaid sessions and sessions without a
\* customer are skipped; a customer whose metadata already holds a
\* license_key is left as it is; otherwise a new key is stored with
\* license_status 'active'.  A Stripe call that throws answers 500.
CheckoutSessionCompleted ==
  \E c \in Customers \cup {0}, paid \in BOOLEAN, stripeThrows \in BOOLEAN :
    /\ IF ~paid \/ c = 0
       THEN /\ whEvent' = [type |-> "checkout.session.completed",
                           customer |-> c, paid |-> paid, status |-> 200]
            /\ UNCHANGED <<customers, keysIssued>>
       ELSE IF stripeThrows
       THEN /\ whEvent' = [type |-> "checkout.session.completed",
                           customer |-> c, paid |-> paid, status |-> 500]
            /\ UNCHANGED <<customers, keysIssued>>
       ELSE /\ whEvent' = [type |-> "checkout.session.completed",
                           customer |-> c, paid |-> paid, status |-> 200]
            /\ IF customers[c].license_key # 0
               THEN UNCHANGED <<customers, keysIssued>>
               ELSE /\ keysIssued' = keysIssued + 1
                    /\ customers' = [customers EXCEPT ![c] =
                                       [license_key |-> keysIssued + 1,
                                        license_status |-> "active"]]
    /\ UNCHANGED <<validateRes, licFrame>>

\* case 'customer.subscription.deleted' / 'charge.refunded': license_status
\* becomes 'revoked', license_key stays; a Stripe call that throws is logged
\* and the answer is 200 all the same
ChargeRefunded ==
  \E c \in Customers \cup {0}, stripeThrows \in BOOLEAN,
     type \in {"charge.refunded", "customer.subscription.deleted"} :
    /\ whEvent' = [type |-> type, customer |-> c, paid |-> FALSE,
                   status |-> 200]
    /\ customers' = IF c # 0 /\ ~stripeThrows
                    THEN [customers EXCEPT ![c].license_status = "revoked"]
                    ELSE customers
    /\ UNCHANGED <<keysIssued, validateRes, licFrame>>

\* POST /api/validate-license with a well-formed key; stripe.customers.list
\* may throw, which answers 500
ValidateLicense ==
  \E key \in 1..MaxCustomers, stripeThrows \in BOOLEAN :
    /\ validateRes' = IF stripeThrows
                      THEN [key |-> key, status |-> 500, valid |-> FALSE]
                      ELSE validateLicense(customers, key)
    /\ UNCHANGED <<customers, keysIssued, whEvent, licFrame>>

(***************************************************************************)
(* The child's output on its way to the UI (src/electron-main.js 186-250). *)
(* A character is [line, k]: the k-th character of the line-th line the     *)
(* child wrote, k = 0 being the newline that ends it.  The two pipes        *)
(* deliver what was written to them in chunks of any size, and both data    *)
(* handlers are the one parseAndSend with its one outputBuffer.             *)
(***************************************************************************)
\* what the output handling never touches
pipeFrame == <<runVars, abortVars, classifyVars, protoVars, guiVars,
               sweepsVars, execVars, paceVars, navVars, sessVars, licVars,
               delayVars>>

IsNewline(ch) == ch.k = 0

\* the text of line l as the child wrote it, without its newline
TextOf(l, len) == [k \in 1..len |-> [line |-> l, k |-> k]]

RECURSIVE SplitLines(_, _)
\* outputBuffer.split(/\r?\n/): the pieces before each newline, and the
\* piece after the last one, which lines.pop() puts back into the buffer
SplitLines(buf, piece) ==
  IF buf = <<>> THEN [lines |-> <<>>, rest |-> piece]
  ELSE IF IsNewline(Head(buf))
       THEN LET r == SplitLines(Tail(buf), <<>>)
            IN [lines |-> <<piece>> \o r.lines, rest |-> r.rest]
       ELSE SplitLines(Tail(buf), Append(piece, Head(buf)))

\* the for loop of parseAndSend: if (!line.trim()) continue; every other
\* line is sent once
SentOf(lines) == SelectSeq(lines, LAMBDA ln : ln # <<>>)

\* console.log / console.error / process.stdout.write in the child: one
\* line, empty or not, to one of the streams; the last write to a stream may
\* lack its newline
ChildWrites ==
  /\ ~closeSeen
  /\ linesWritten < MaxLines
  /\ \E s \in Streams \ partial, blank \in BOOLEAN, nl \in BOOLEAN :
       /\ blank => nl
       /\ linesWritten' = linesWritten + 1
       /\ blankLines' = IF blank THEN blankLines \cup {linesWritten'}
                        ELSE blankLines
       /\ partial' = IF nl THEN partial ELSE partial \cup {s}
       /\ pipe' = [pipe EXCEPT ![s] =
                     @ \o TextOf(linesWritten', IF blank THEN 0 ELSE LineLen)
                       \o (IF nl THEN <<[line |-> linesWritten', k |-> 0]>>
                           ELSE <<>>)]
  /\ UNCHANGED <<outputBuffer, forwarded, closeSeen, pipeFrame>>

\* a 'data' event of stdout or stderr: parseAndSend(data) with the next n
\* characters of that pipe
OnData ==
  /\ ~closeSeen
  /\ \E s \in Streams :
       /\ pipe[s] # <<>>
       /\ \E n \in 1..Len(pipe[s]) :
            LET data == SubSeq(pipe[s], 1, n)
                r == SplitLines(outputBuffer \o data, <<>>)
            IN /\ pipe' = [pipe EXCEPT ![s] = SubSeq(@, n + 1, Len(@))]
               /\ outputBuffer' = r.rest
               /\ forwarded' = forwarded \o SentOf(r.lines)
  /\ UNCHANGED <<linesWritten, blankLines, partial, closeSeen, pipeFrame>>

\* the 'close' event, emitted once the process has ended and both pipes have
\* been read to their end: flushOutputBuffer sends what is left in the buffer
OnCloseFlush ==
  /\ ~closeSeen
  /\ \A s \in Streams : pipe[s] = <<>>
  /\ closeSeen' = TRUE
  /\ forwarded' = IF outputBuffer = <<>> THEN forwarded
                  ELSE Append(forwarded, outputBuffer)
  /\ outputBuffer' = <<>>
  /\ UNCHANGED <<pipe, linesWritten, blankLines, partial, pipeFrame>>

(***************************************************************************)
(* The delay between two actions: SPEED_PRESETS, runCleanup's choice of     *)
(* MIN_DELAY_MS and MAX_DELAY_MS, rand and pause (src/index.js 305-309,     *)
(* 406-408, 1440-1447) and the pause that ends every pass of processTab's   *)
(* for loop (1157-1196).                                                     *)
(***************************************************************************)
\* what the delays never touch
delayFrame == <<runVars, abortVars, classifyVars, protoVars, guiVars,
                sweepsVars, execVars, paceVars, navVars, sessVars, licVars,
                pipeVars>>

SPEED_PRESETS ==
  [aggressive |-> [min |-> 600, max |-> 1000],
   normal |-> [min |-> 1200, max |-> 2200],
   conservative |-> [min |-> 2500, max |-> 4000]]

\* names every JavaScript object inherits from Object.prototype
InheritedNames == {"constructor", "toString"}

\* values config.speed may have; "" stands for every falsy value
SpeedValues ==
  {"aggressive", "normal", "conservative", "turbo", ""} \cup InheritedNames

\* SPEED_PRESETS[SPEED] || SPEED_PRESETS.normal, then delays.min and
\* delays.max: an own property is a preset; an inherited one is a function,
\* which is truthy and has neither min nor max; anything else is undefined
\* and gives way to the normal preset
Delays(speed) ==
  IF speed \in DOMAIN SPEED_PRESETS THEN SPEED_PRESETS[speed]
  ELSE IF speed \in InheritedNames THEN [min |-> NaN, max |-> NaN]
  ELSE SPEED_PRESETS.normal

\* Math.floor(min + Math.random() * (max - min + 1)) over every value of
\* Math.random() in [0, 1)
rand(min, max) ==
  IF min = NaN \/ max = NaN THEN {NaN} ELSE min..max

\* setTimeout(r, ms): a delay that is not a number is taken as 1
sleep(ms) == IF ms = NaN THEN 1 ELSE ms

\* runCleanup sets SPEED and the two delay bounds and calls run()
DelayRunCleanup ==
  /\ delayPc = "config"
  /\ \E speed \in SpeedValues :
       /\ SPEED' = (IF speed = "" THEN "normal" ELSE speed)
       /\ MIN_DELAY_MS' = Delays(SPEED').min
       /\ MAX_DELAY_MS' = Delays(SPEED').max
  /\ delayPc' = "attempt"
  /\ UNCHANGED <<lastAttempt, lastDelay, attemptsMade, pausesMade,
                 removedCount, delayFrame>>

\* variant: whatever reaches the end of the try block is counted
Counts_UnlessThrown(outcome) == outcome # "threw"

\* if (res.ok) { removed.count++; ... } at the end of the try block, which
\* a throw does not reach
Counts(outcome) == outcome = "ok"

\* the try block of the for loop: the attempt succeeds, fails with a reason,
\* or throws into the catch
DelayAttempt ==
  /\ delayPc = "attempt"
  /\ attemptsMade < MaxAttempts
  /\ \E outcome \in {"ok", "failed", "threw"} :
       /\ lastAttempt' = outcome
       /\ removedCount' = IF Counts(outcome) THEN removedCount + 1
                          ELSE removedCount
  /\ attemptsMade' = attemptsMade + 1
  /\ lastDelay' = 0
  /\ delayPc' = "pause"
  /\ UNCHANGED <<SPEED, MIN_DELAY_MS, MAX_DELAY_MS, pausesMade, delayFrame>>

\* await pause(MIN_DELAY_MS, MAX_DELAY_MS) after the try/catch
DelayPause ==
  /\ delayPc = "pause"
  /\ \E ms \in rand(MIN_DELAY_MS, MAX_DELAY_MS) : lastDelay' = sleep(ms)
  /\ pausesMade' = pausesMade + 1
  /\ delayPc' = "attempt"
  /\ UNCHANGED <<SPEED, MIN_DELAY_MS, MAX_DELAY_MS, lastAttempt,
                 attemptsMade, removedCount, delayFrame>>

IdleTimeline == [k \in 1..TimelineLen |-> [ts |-> NoDate, own |-> "mine"]]

Init ==
  /\ RunInit
  /\ timeline \in [1..TimelineLen -> Catalogue]
  /\ ClassifyIdle /\ ProtoIdle /\ GuiIdle /\ SweepsIdle /\ ExecIdle
  /\ LaterIdle

Spec == Init /\ [][Next]_vars

InitClassify ==
  /\ RunInit /\ timeline = IdleTimeline /\ ProtoIdle /\ GuiIdle /\ SweepsIdle /\ ExecIdle
  /\ LaterIdle
  /\ cT \in TimeOrNull /\ cDB \in Times /\ cPA \in Times
  /\ cTag = "none" /\ cRet = FALSE

NextClassify == CallShouldDeleteByDate

SpecClassify == InitClassify /\ [][NextClassify]_vars

InitCancel ==
  /\ RunInit /\ timeline = IdleTimeline /\ ClassifyIdle /\ ProtoIdle /\ GuiIdle /\ SweepsIdle /\ ExecIdle
  /\ LaterIdle

NextCancel ==
  \/ \E r \in Runs : CallRunCleanup(r)
  \/ CallAbortCleanup
  \/ \E r \in Runs : PollIsAborted(r)
  \/ \E r \in Runs : RunCleanupSettles(r)

SpecCancel == InitCancel /\ [][NextCancel]_vars

InitGui ==
  /\ RunInit /\ timeline = IdleTimeline /\ ClassifyIdle /\ ProtoIdle /\ SweepsIdle /\ ExecIdle
  /\ LaterIdle
  /\ isCleanupRunning = FALSE
  /\ cleanupProcess = 0
  /\ licenseFile \in {"none", "malformed", "valid"}
  /\ startPending = 0
  /\ childPc = [p \in Children |-> "none"]
  /\ childDeleted = [p \in Children |-> 0]
  /\ serverAnswer = "none"
  /\ cleanupStats = [deleted |-> 0]
  /\ childOut = <<>>
  /\ progressSent = 0
  /\ normalizedHandle = "none"

NextGui ==
  \/ StartCleanup
  \/ LicenseAnswered
  \/ \E p \in Children : ChildActBegins(p)
  \/ \E p \in Children : ChildActEnds(p)
  \/ \E p \in Children : ChildExits(p)
  \/ \E p \in Children : OnClose(p)
  \/ StopCleanup
  \/ ParseAndSend

SpecGui == InitGui /\ [][NextGui]_vars

InitSweeps ==
  /\ RunInit /\ timeline = IdleTimeline
  /\ ClassifyIdle /\ ProtoIdle /\ GuiIdle /\ SweepsIdle /\ ExecIdle
  /\ LaterIdle

NextSweeps ==
  \/ ProcessTab
  \/ SweepBegins
  \/ SweepIterates
  \/ SweepEnds

\* every step of processTab waits on a timer or on a page call that settles,
\* so a step that can be taken is taken
SpecSweeps == InitSweeps /\ [][NextSweeps]_vars /\ WF_vars(NextSweeps)

InitExec ==
  /\ RunInit /\ timeline = IdleTimeline
  /\ ClassifyIdle /\ ProtoIdle /\ GuiIdle /\ SweepsIdle /\ ExecIdle
  /\ LaterIdle

NextExec ==
  \/ ItemBegins
  \/ CallTryDelete
  \/ CallTryUndoRepost
  \/ ItemCounted
  \/ ItemCaught
  \/ CallIsYours
  \/ NextItem

\* every await on a promise that settles is resumed
SpecExec == InitExec /\ [][NextExec]_vars /\ WF_vars(NextExec)

InitPace ==
  /\ RunInit /\ timeline = IdleTimeline
  /\ ClassifyIdle /\ ProtoIdle /\ GuiIdle /\ SweepsIdle /\ ExecIdle
  /\ LaterIdle

NextPace ==
  \/ PaceBegins
  \/ PaceWorklist
  \/ PaceItem
  \/ PaceWorklistEnds

SpecPace == InitPace /\ [][NextPace]_vars

InitNav ==
  /\ RunInit /\ timeline = IdleTimeline
  /\ ClassifyIdle /\ ProtoIdle /\ GuiIdle /\ SweepsIdle /\ ExecIdle
  /\ LaterIdle

NextNav ==
  \/ NavRunCleanup
  \/ NavAbortCleanup
  \/ NavGoto
  \/ NavRetry
  \/ NavTabAction
  \/ NavTabReturns
  \/ NavThrown

SpecNav == InitNav /\ [][NextNav]_vars

InitLicense ==
  /\ RunInit /\ timeline = IdleTimeline
  /\ ClassifyIdle /\ ProtoIdle /\ GuiIdle /\ SweepsIdle /\ ExecIdle
  /\ LaterIdle

NextLicense ==
  \/ CheckoutSessionCompleted
  \/ ChargeRefunded
  \/ ValidateLicense

SpecLicense == InitLicense /\ [][NextLicense]_vars

InitPipe ==
  /\ RunInit /\ timeline = IdleTimeline
  /\ ClassifyIdle /\ ProtoIdle /\ GuiIdle /\ SweepsIdle /\ ExecIdle
  /\ LaterIdle

NextPipe ==
  \/ ChildWrites
  \/ OnData
  \/ OnCloseFlush

SpecPipe == InitPipe /\ [][NextPipe]_vars

InitDelay ==
  /\ RunInit /\ timeline = IdleTimeline
  /\ ClassifyIdle /\ ProtoIdle /\ GuiIdle /\ SweepsIdle /\ ExecIdle
  /\ LaterIdle

NextDelay ==
  \/ DelayRunCleanup
  \/ DelayAttempt
  \/ DelayPause

SpecDelay == InitDelay /\ [][NextDelay]_vars

InitSession ==
  /\ RunInit /\ timeline = IdleTimeline
  /\ ClassifyIdle /\ ProtoIdle /\ GuiIdle /\ SweepsIdle /\ ExecIdle
  /\ LaterIdle

NextSession ==
  \/ SaveSession
  \/ DayPasses
  \/ IsSessionValid
  \/ ClearSession

SpecSession == InitSession /\ [][NextSession]_vars

\* ================================================================ properties
\* the card the action in flight is being performed on, if any
InFlight == pc = "acting" /\ target # 0

\* C1: across a whole run, no delete or undo-repost action is ever performed
\* on an item whose timestamp is on or after protectAfter, the rendered list
\* shifting after a deletion included.
C1_NoActionOnProtected ==
  InFlight =>
    ~(getTweetDate(target) # NoDate /\ getTweetDate(target) >= PROTECT_AFTER)

\* C2: for every non-null timestamp T and every window, T >= protectAfter
\* (T = protectAfter included) is classified Protect and shouldDeleteByDate
\* returns false, also when T is at or after the delete cutoff.
C2_ProtectionPrecedence ==
  cTag # "none" /\ cT # NoDate /\ cT >= cPA => cTag = "Protect" /\ cRet = FALSE

\* a call on the boundary T = protectAfter with T inside the delete range
C2_ProtectedBoundary ==
  cTag = "Protect" /\ cT # NoDate /\ cT = cPA /\ cT >= cDB

\* C4: an item whose timestamp is strictly before deleteBefore (and before
\* protectAfter) is classified Delete and shouldDeleteByDate returns true.
C4_OlderThanCutoffIsDeleted ==
  cTag # "none" /\ cT # NoDate /\ cT < cDB /\ cT < cPA => cTag = "Delete" /\ cRet

\* C3: no delete or undo-repost action is ever performed on an item whose
\* timestamp cannot be read (null).
C3_NoActionOnUnknownDate ==
  InFlight => getTweetDate(target) # NoDate

\* C3, the part about collectWorklist: an item with an unreadable timestamp
\* is never probed for ownership and never placed in a worklist.
C3_UnknownDateNotCollected ==
  \A k \in 1..TimelineLen :
    getTweetDate(k) = NoDate => resolveCount[k] = 0

\* a sweep has scanned a card with an unreadable timestamp and placed others
C3_UnknownDateScanned ==
  \E k \in 1..TimelineLen :
    getTweetDate(k) = NoDate /\ evalCount[k] = 1 /\ placed > 0

\* C5: within one sweep each identity key is classified at most once and
\* ownership-resolved at most once, over any sequence of collectWorklist
\* calls, and the number of items placed in worklists never exceeds the
\* number of distinct keys seen.
C5_Deduplication ==
  /\ \A k \in 1..TimelineLen : evalCount[k] <= 1 /\ resolveCount[k] <= 1
  /\ placed <= Cardinality(seen)

\* a sweep in which collectWorklist has run again over a page whose cards
\* had all been seen, some of them placed in a worklist
C5_RescannedPage ==
  /\ pc = "batchLoop"
  /\ noLoadCount >= 2
  /\ Cardinality(seen) = TimelineLen
  /\ placed >= 1
  /\ \E k \in 1..TimelineLen : k \notin gone /\ resolveCount[k] = 1

\* C6: removed.count never exceeds TARGET, and once the count equals the
\* target no action is in flight: none is attempted in the current batch, in
\* a later batch or sweep, or in a later tab.
C6_TargetNeverExceeded ==
  /\ removed <= TARGET
  /\ pc = "acting" => removed < TARGET

\* the run has ended on its target with a tab still unvisited and a card in
\* the delete range still rendered
C6_StoppedAtTarget ==
  /\ pc = "done"
  /\ removed = TARGET
  /\ Cardinality(gone) = TARGET
  /\ tabs # <<>>
  /\ \E k \in 1..loaded :
       /\ k \notin gone
       /\ shouldDeleteByDate(getTweetDate(k), DELETE_BEFORE, PROTECT_AFTER)
       /\ isYours(k)

\* C7: once cancellation is signalled no delete or undo-repost action is
\* started on a later worklist item, and the deleted counter moves no more
\* except by the outcome of an action that was already in flight.
C7_NoActionAfterCancel ==
  [][/\ (pc' = "acting" /\ pc # "acting" => ~isAborted)
     /\ (isAborted /\ pc # "acting" => removed' = removed)]_vars

\* cancelled with k >= 1 items of the worklist processed and item k+1 pending
C7_CancelledMidBatch ==
  /\ isAborted
  /\ pc = "act"
  /\ workIdx > 1
  /\ workIdx <= Len(work)
  /\ Remaining > 0

\* C8: once cancellation has been observed by a loop condition, run() does
\* not navigate to a further tab's view.
C8_NoNavigationAfterCancel ==
  [][navCount' > navCount => ~cancelSeen']_vars

\* C9: cancellation never forcibly ends an action in flight: on every stop
\* path, the desktop shell's stop-cleanup included, an action in progress
\* completes or fails before the run stops.
C9_InFlightActionCompletes ==
  [][\A p \in Children :
       childPc[p] = "acting" => childPc'[p] \in {"acting", "between"}]_vars

\* C10: once abortCleanup has been called during a run, isAborted() is true
\* for the rest of that run, and the run never reads false after true.
C10_SignalSetOncePerRun ==
  \A r \in Runs :
    /\ r \in raisedFor /\ runState[r] = "running" => isAborted
    /\ \A i, j \in DOMAIN polled[r] : i < j /\ polled[r][i] => polled[r][j]

\* C11: in every terminal state of runCleanup the completion report
\* onComplete has been delivered, and its deleted field equals the number of
\* items actually deleted before the run ended.
C11_ReportAlwaysDelivered ==
  pc = "done" =>
    report.kind = "complete" /\ report.deleted = Cardinality(gone)

\* C12: a run in which cancellation was observed ends as 'stopped by user':
\* nothing is rethrown and no error is logged, and run() has not closed with
\* its 'target reached' or 'no more matching tweets found' line.
C12_CancelledIsDistinct ==
  pc = "done" /\ cancelSeen =>
    report.kind = "complete" /\ report.stopped /\ report.summary = "none"

\* C13: without cancellation, and whatever the page does, processTab reaches
\* its end, after at most MAX_SWEEPS sweeps.
C13_ProcessTabTerminates ==
  <>(swPc = "tabDone" /\ sweepCount <= MAX_SWEEPS)

\* C14: a sweep never sees more than NoLoadLimit consecutive scroll steps
\* without growth of the rendered card count: the tenth such step ends it.
C14_ExhaustedAfterThreshold ==
  noGrowthRun <= NoLoadLimit

\* C15: a tab that is left because nothing more is deletable (not because of
\* the target, the sweep cap or cancellation) is left only after two
\* consecutive sweeps without a successful action.
C15_TwoEmptySweepsBeforeDone ==
  endedBy = "no-more" => emptyRun >= 2

\* C16: the seen set holds exactly the status keys that collectWorklist has
\* classified in the current sweep, so it is empty when a sweep starts and a
\* card evaluated in an earlier sweep is classified and resolved again.
C16_SeenIsOfThisSweep ==
  seen = {k \in 1..TimelineLen : evalCount[k] >= 1}

\* the second sweep of a tab has classified again a card without a readable
\* date and resolved again a deletable card that is still on the page
C16_EvaluatedAgain ==
  /\ sweepCount = 2
  /\ pc = "batchLoop"
  /\ \E k \in 1..loaded : getTweetDate(k) = NoDate /\ evalCount[k] = 1
  /\ \E j \in 1..loaded :
       /\ j \notin gone
       /\ shouldDeleteByDate(getTweetDate(j), DELETE_BEFORE, PROTECT_AFTER)
       /\ resolveCount[j] = 1

\* C17: tryUndoRepost is called only after tryDelete returned a failure, it
\* touches the page only when repost handling is enabled, an item is counted
\* at most once, and a failed delete followed by a successful undo-repost, or
\* a successful delete alone, is counted exactly once.
C17_FallbackOrdering ==
  /\ undoRes.kind # "none" => deleteRes.kind = "returned" /\ ~deleteRes.ok
  /\ undoRes.kind # "none" /\ undoRes.touched => HANDLE_REPOSTS
  /\ counted <= 1
  /\ exPc = "itemDone" /\ undoRes.ok => counted = 1
  /\ exPc = "itemDone" /\ deleteRes.ok => counted = 1 /\ undoRes = NoRes

\* an item whose menu had no Delete entry and whose repost was undone
C17_DeleteFailedUndoSucceeded ==
  /\ exPc = "itemDone"
  /\ deleteRes.reason = "no-delete-item"
  /\ undoRes.reason = "unreposted"
  /\ counted = 1

\* C18: every failure returned by tryDelete or tryUndoRepost carries a reason
\* from {no-menu, menu-empty, no-delete-item, no-undo-item, not-a-repost,
\* repost-disabled}.
C18_ReasonsFromClosedSet ==
  \A r \in {deleteRes, undoRes} :
    r.kind = "returned" /\ ~r.ok =>
      r.reason \in {"no-menu", "menu-empty", "no-delete-item", "no-undo-item",
                    "not-a-repost", "repost-disabled"}

\* C19: neither tryDelete nor tryUndoRepost lets an error of the page layer
\* out: processTab's catch is never entered.
C19_ExecutorNeverThrows ==
  /\ deleteRes.kind # "threw"
  /\ undoRes.kind # "threw"
  /\ exPc # "caught"

\* C20: isYours never throws, so collectWorklist is never aborted by an
\* ownership probe that rejects or times out.
C20_IsYoursNeverThrows ==
  yours # "threw" /\ exPc # "runFailed"

\* C21: when isYours has finished, on whatever path, no menu that its probe
\* menuHasDelete opened on the card is still open.
C21_ProbeMenuClosed ==
  exPc \in {"probed", "runFailed"} => ~menuOpen

\* C22: a worklist item that is being acted on, or a card that is being
\* probed for ownership, is always left again: no probe that never settles
\* keeps the run waiting for ever.
C22_NoProbeBlocksTheRun ==
  (exPc \in {"delete", "undo", "count", "caught", "probing"})
    ~> (exPc \in {"itemDone", "probed", "runFailed"})

\* C23: whenever a further deletion is about to be attempted while
\* removed.count stands at a positive multiple of the cooldown interval, the
\* extended pause for that count has been made.
C23_CooldownAtEveryInterval ==
  pacePc = "item" /\ workLeft > 0 /\ CooldownDue => cooledAt = removed

\* C24: never more than 12 deletions follow one another without an extended
\* pause between them.
C24_StreakCapped ==
  streak <= 12

\* C25: page.goto is called at most twice for a tab; once gotoProfileTab has
\* thrown, no action is performed on the tab and the run ends in runCleanup's
\* catch, which rethrows the error unless cancellation has been requested.
C25_NavigationFailureIsFatal ==
  /\ gotoCount <= 2
  /\ navFailed => navPc \in {"threw", "rethrown", "stopped"} /\ tabActions = 0
  /\ navPc = "stopped" => isAborted
  /\ navPc = "rethrown" => navFailed

\* the re-attempt after a wrong URL has failed and runCleanup has rethrown
C25_RetryFailedAndSurfaced ==
  navPc = "rethrown" /\ gotoCount = 2 /\ tabActions = 0 /\ ~isAborted

\* C25 as stated: a failed navigation always leaves runCleanup as an error.
C25_FailureAlwaysSurfaces ==
  navFailed => navPc \in {"threw", "rethrown"}

\* C26: a run with reposts enabled and both posts and replies disabled that
\* was logged in and not cancelled has visited a view before it completes.
C26_RepostsAloneAreProcessed ==
  /\ pc = "done"
  /\ report.kind = "complete" /\ ~report.stopped
  /\ HANDLE_REPOSTS /\ ~INCLUDE_POSTS /\ ~INCLUDE_REPLIES
  => navCount >= 1

\* C27: a start request made with a cached license whose validation finds
\* the license server unreachable still starts the cleanup.
C27_StartsWhileServerUnreachable ==
  [][startPending' < startPending /\ serverAnswer' = "unreachable"
       /\ licenseFile = "valid"
     => isCleanupRunning']_vars

\* C28: once parseAndSend has read everything the running child has written,
\* the deleted statistic equals the number of tweets the child has deleted.
C28_DeletedStatIsCurrent ==
  cleanupProcess # 0 /\ ChildAlive(cleanupProcess) /\ childOut = <<>>
    => cleanupStats.deleted = childDeleted[cleanupProcess]

\* C29: a call of isSessionValid on a session file older than one day
\* returns false.
C29_DayOldSessionExpired ==
  checkedAge > 1 => sessResult = "false"

\* C30: the item an action is started on is one that collectWorklist has, in
\* this sweep, classified Delete and resolved as owned.
C30_ActionTargetsClassifiedItem ==
  InFlight =>
    /\ resolveCount[target] >= 1
    /\ shouldDeleteByDate(getTweetDate(target), DELETE_BEFORE, PROTECT_AFTER)
    /\ isYours(target)

C32_AtMostOneChildAlive ==
  /\ Cardinality({p \in Children : ChildAlive(p)}) <= 1
  /\ (\E p \in Children : ChildAlive(p)) => isCleanupRunning

C34_PaidCheckoutYieldsActiveKey ==
  /\ whEvent.type = "checkout.session.completed"
  /\ whEvent.paid /\ whEvent.customer # 0 /\ whEvent.status = 200
  => LET m == customers[whEvent.customer]
     IN /\ m.license_key # 0
        /\ m.license_status = "active"
        /\ validateLicense(customers, m.license_key).valid

\* C35: once the child has closed, every non-empty line it wrote has been
\* forwarded to the UI exactly once and intact, and nothing else has been
\* forwarded, however the output was split into chunks and however the
\* stdout and stderr chunks interleaved.
C35_EveryLineOnceAndIntact ==
  closeSeen =>
    /\ \A l \in (1..linesWritten) \ blankLines :
         Cardinality({i \in 1..Len(forwarded) :
                        forwarded[i] = TextOf(l, LineLen)}) = 1
    /\ \A i \in 1..Len(forwarded) :
         \E l \in (1..linesWritten) \ blankLines :
           forwarded[i] = TextOf(l, LineLen)

\* C36: every attempt, failed and throwing ones included, is followed by a
\* pause before the next one, and the pause lasts between the minimum and
\* the maximum of the selected speed preset, a speed that names no preset
\* counting as normal.
C36_DelayWithinPreset ==
  LET preset == IF SPEED \in DOMAIN SPEED_PRESETS THEN SPEED_PRESETS[SPEED]
                ELSE SPEED_PRESETS.normal
  IN /\ delayPc = "attempt" => pausesMade = attemptsMade
     /\ delayPc = "attempt" /\ attemptsMade > 0
          => lastDelay \in preset.min..preset.max

\* C37: the deleted counter counts only real removals: every ok outcome that
\* was counted belongs to an item whose click on the menu entry (and on the
\* confirmation, when shown) succeeded, so the ok outcomes counted never
\* outnumber the items removed from the timeline.
C37_CounterCountsRealRemovals ==
  okOutcomes <= Cardinality(gone)

\* C38: run() releases the browser on every exit path: once control has left
\* run(), by return or by throw, the browser or context has been closed.
C38_BrowserReleasedOnEveryExit ==
  pc = "done" => ~browserOpen

\* C39: an attempt that fails or throws leaves the deleted counter unchanged
\* and is followed by the pacing pause, after which the loop is back at its
\* top for the next worklist item.
C39_FailureDoesNotStopTheBatch ==
  [][/\ attemptsMade' = attemptsMade + 1 /\ lastAttempt' \in {"failed", "threw"}
          => removedCount' = removedCount /\ delayPc' = "pause"
     /\ delayPc = "pause"
          => /\ pausesMade' = pausesMade + 1
             /\ delayPc' = "attempt"
             /\ removedCount' = removedCount
    ]_vars

\* a second item was attempted after the first had failed or thrown and the
\* pause had been made, and it threw as well
C39_NextItemAfterFailure ==
  /\ attemptsMade = 2 /\ pausesMade = 2 /\ removedCount = 0
  /\ lastAttempt = "threw" /\ delayPc = "attempt"

====
